---- MODULE Spec2Model ----
(***************************************************************************)
(* A model of the ja4 crate root (src/rust/ja4/src/lib.rs):                *)
(*   - hash12, the truncated SHA-256 used by every fingerprint builder;    *)
(*   - parse_tshark_version, the parser of `tshark --version` output;      *)
(*   - Cli::run, the driver that reads packets from the dissector, feeds   *)
(*     them to Streams::update and writes the finalized flows.             *)
(* Strings are sequences of bytes (their UTF-8 encoding, here ASCII).      *)
(***************************************************************************)
EXTENDS Integers, Sequences, FiniteSets, TLC

(***************************************************************************)
(* 32-bit words are pairs <<hi, lo>> of 16-bit halves.                     *)
(***************************************************************************)
\* 2^n for n in 0..16.
Pow2Table ==
    <<1, 2, 4, 8, 16, 32, 64, 128, 256, 512, 1024, 2048, 4096, 8192, 16384,
      32768, 65536>>

Pow2(n) == Pow2Table[n + 1]

\* Bitwise exclusive or and bitwise and of two naturals, bit by bit.
RECURSIVE XorBits(_, _)
XorBits(a, b) ==
    IF a = 0 THEN b
    ELSE IF b = 0 THEN a
    ELSE (((a % 2) + (b % 2)) % 2) + 2 * XorBits(a \div 2, b \div 2)

RECURSIVE AndBits(_, _)
AndBits(a, b) ==
    IF a = 0 \/ b = 0 THEN 0
    ELSE ((a % 2) * (b % 2)) + 2 * AndBits(a \div 2, b \div 2)

\* The same on 4-bit digits, tabulated: XorTable[a + 1][b + 1] = a xor b.
RECURSIVE XorRow(_, _)
XorRow(a, b) == IF b > 15 THEN <<>> ELSE <<XorBits(a, b)>> \o XorRow(a, b + 1)

RECURSIVE XorRows(_)
XorRows(a) == IF a > 15 THEN <<>> ELSE <<XorRow(a, 0)>> \o XorRows(a + 1)

XorTable == XorRows(0)

RECURSIVE AndRow(_, _)
AndRow(a, b) == IF b > 15 THEN <<>> ELSE <<AndBits(a, b)>> \o AndRow(a, b + 1)

RECURSIVE AndRows(_)
AndRows(a) == IF a > 15 THEN <<>> ELSE <<AndRow(a, 0)>> \o AndRows(a + 1)

AndTable == AndRows(0)

\* A 16-bit operation from its table, one hexadecimal digit at a time.
Digitwise(T, a, b) ==
    T[(a \div 4096) + 1][(b \div 4096) + 1] * 4096
    + T[((a \div 256) % 16) + 1][((b \div 256) % 16) + 1] * 256
    + T[((a \div 16) % 16) + 1][((b \div 16) % 16) + 1] * 16
    + T[(a % 16) + 1][(b % 16) + 1]

Xor16(a, b) == Digitwise(XorTable, a, b)

And16(a, b) == Digitwise(AndTable, a, b)

WXor(x, y) == <<Xor16(x[1], y[1]), Xor16(x[2], y[2])>>

WAnd(x, y) == <<And16(x[1], y[1]), And16(x[2], y[2])>>

WNot(x) == <<65535 - x[1], 65535 - x[2]>>

\* Addition modulo 2^32.
WAdd(x, y) ==
    LET lo == x[2] + y[2]
    IN  <<(x[1] + y[1] + (lo \div 65536)) % 65536, lo % 65536>>

\* Rotate right by n, 0 < n < 32.
Rotr(x, n) ==
    LET hi == IF n >= 16 THEN x[2] ELSE x[1]
        lo == IF n >= 16 THEN x[1] ELSE x[2]
        m  == n % 16
    IN  IF m = 0 THEN <<hi, lo>>
        ELSE <<(hi \div Pow2(m)) + (lo % Pow2(m)) * Pow2(16 - m),
               (lo \div Pow2(m)) + (hi % Pow2(m)) * Pow2(16 - m)>>

\* Shift right by n, 0 < n < 16.
Shr(x, n) ==
    <<x[1] \div Pow2(n), (x[2] \div Pow2(n)) + (x[1] % Pow2(n)) * Pow2(16 - n)>>

Ch(x, y, z) == WXor(WAnd(x, y), WAnd(WNot(x), z))

Maj(x, y, z) == WXor(WXor(WAnd(x, y), WAnd(x, z)), WAnd(y, z))

BigSigma0(x) == WXor(WXor(Rotr(x, 2), Rotr(x, 13)), Rotr(x, 22))

BigSigma1(x) == WXor(WXor(Rotr(x, 6), Rotr(x, 11)), Rotr(x, 25))

SmallSigma0(x) == WXor(WXor(Rotr(x, 7), Rotr(x, 18)), Shr(x, 3))

SmallSigma1(x) == WXor(WXor(Rotr(x, 17), Rotr(x, 19)), Shr(x, 10))

\* The round constants K[0..63] of SHA-256, as <<hi, lo>> halves.
K256 ==
    << <<17034, 12184>>, <<28983, 17553>>, <<46528, 64463>>, <<59829, 56229>>,
       <<14678, 49755>>, <<23025, 4593>>,  <<37439, 33444>>, <<43804, 24277>>,
       <<55303, 43672>>, <<4739, 23297>>,  <<9265, 34238>>,  <<21772, 32195>>,
       <<29374, 23924>>, <<32990, 45566>>, <<39900, 1703>>,  <<49563, 61812>>,
       <<58523, 27073>>, <<61374, 18310>>, <<4033, 40390>>,  <<9228, 41420>>,
       <<11753, 11375>>, <<19060, 33962>>, <<23728, 43484>>, <<30457, 35034>>,
       <<38974, 20818>>, <<43057, 50797>>, <<45059, 10184>>, <<48985, 32711>>,
       <<50912, 3059>>,  <<54695, 37191>>, <<1738, 25425>>,  <<5161, 10599>>,
       <<10167, 2693>>,  <<11803, 8504>>,  <<19756, 28156>>, <<21304, 3347>>,
       <<25866, 29524>>, <<30314, 2747>>,  <<33218, 51502>>, <<37490, 11397>>,
       <<41663, 59553>>, <<43034, 26187>>, <<49739, 35696>>, <<51052, 20899>>,
       <<53650, 59417>>, <<54937, 1572>>,  <<62478, 13701>>, <<4202, 41072>>,
       <<6564, 49430>>,  <<7735, 27656>>,  <<10056, 30540>>, <<13488, 48309>>,
       <<14620, 3251>>,  <<20184, 43594>>, <<23452, 51791>>, <<26670, 28659>>,
       <<29839, 33518>>, <<30885, 25455>>, <<33992, 30740>>, <<36039, 520>>,
       <<37054, 65530>>, <<42064, 27883>>, <<48889, 41975>>, <<50801, 30962>> >>

\* The initial hash value H(0) of SHA-256.
H256 ==
    << <<27145, 58983>>, <<47975, 44677>>, <<15470, 62322>>, <<42319, 62778>>,
       <<20750, 21119>>, <<39685, 26764>>, <<8067, 55723>>,  <<23520, 52505>> >>

(***************************************************************************)
(* Sha256::digest: padding, message schedule, compression, big-endian      *)
(* output of the eight state words.                                        *)
(***************************************************************************)
RECURSIVE ZeroBytes(_)
ZeroBytes(n) == IF n = 0 THEN <<>> ELSE <<0>> \o ZeroBytes(n - 1)

\* A length below 2^31, as 8 big-endian bytes.
BitLenBytes(n) ==
    <<0, 0, 0, 0, (n \div 16777216) % 256, (n \div 65536) % 256,
      (n \div 256) % 256, n % 256>>

\* The message followed by 0x80, zeros up to 56 modulo 64, and its bit length.
Pad(msg) ==
    LET l == Len(msg)
        z == (119 - (l % 64)) % 64
    IN  msg \o <<128>> \o ZeroBytes(z) \o BitLenBytes(8 * l)

\* The i-th (1-based) big-endian word of a byte sequence.
WordAt(bytes, i) ==
    <<bytes[4 * i - 3] * 256 + bytes[4 * i - 2],
      bytes[4 * i - 1] * 256 + bytes[4 * i]>>

BlockWords(block) == [i \in 1..16 |-> WordAt(block, i)]

RECURSIVE Schedule(_)
Schedule(W) ==
    IF Len(W) = 64 THEN W
    ELSE LET t == Len(W) + 1
             w == WAdd(WAdd(SmallSigma1(W[t - 2]), W[t - 7]),
                       WAdd(SmallSigma0(W[t - 15]), W[t - 16]))
         IN  Schedule(Append(W, w))

\* One round: st = <<a, b, c, d, e, f, g, h>>.
Round(st, k, w) ==
    LET t1 == WAdd(WAdd(WAdd(st[8], BigSigma1(st[5])),
                        WAdd(Ch(st[5], st[6], st[7]), k)), w)
        t2 == WAdd(BigSigma0(st[1]), Maj(st[1], st[2], st[3]))
    IN  <<WAdd(t1, t2), st[1], st[2], st[3], WAdd(st[4], t1), st[5], st[6], st[7]>>

\* The 64 rounds from round t on; each round's state is computed in full
\* before the next round starts.
RECURSIVE Rounds(_, _, _)
Rounds(st, W, t) ==
    IF t > 64 THEN st
    ELSE LET nxt == Round(st, K256[t], W[t])
         IN  IF Len(nxt) = 8 THEN Rounds(nxt, W, t + 1) ELSE nxt

Compress(H, block) ==
    LET W  == Schedule(BlockWords(block))
        st == Rounds(H, W, 1)
    IN  <<WAdd(H[1], st[1]), WAdd(H[2], st[2]), WAdd(H[3], st[3]), WAdd(H[4], st[4]),
          WAdd(H[5], st[5]), WAdd(H[6], st[6]), WAdd(H[7], st[7]), WAdd(H[8], st[8])>>

RECURSIVE Blocks(_, _)
Blocks(H, bytes) ==
    IF Len(bytes) = 0 THEN H
    ELSE Blocks(Compress(H, SubSeq(bytes, 1, 64)), SubSeq(bytes, 65, Len(bytes)))

WordBytes(w) == <<w[1] \div 256, w[1] % 256, w[2] \div 256, w[2] % 256>>

RECURSIVE StateBytes(_, _)
StateBytes(H, i) ==
    IF i > Len(H) THEN <<>> ELSE WordBytes(H[i]) \o StateBytes(H, i + 1)

\* Sha256::digest(s): the 32 bytes of the digest.
Sha256Digest(msg) == StateBytes(Blocks(H256, Pad(msg)), 1)

(***************************************************************************)
(* hex::encode: two lowercase hexadecimal digits per byte.                 *)
(***************************************************************************)
HexDigit(n) == IF n < 10 THEN 48 + n ELSE 87 + n

RECURSIVE HexEncode(_)
HexEncode(bytes) ==
    IF Len(bytes) = 0 THEN <<>>
    ELSE <<HexDigit(bytes[1] \div 16), HexDigit(bytes[1] % 16)>>
         \o HexEncode(Tail(bytes))

\* The literal "000000000000".
Zeros12 == <<48, 48, 48, 48, 48, 48, 48, 48, 48, 48, 48, 48>>

\* hash12 without the short-circuit for the empty string.
hash12_no_empty_case(s) == SubSeq(HexEncode(Sha256Digest(s)), 1, 12)

\* hash12 slicing one character short: sha256[..11].
hash12_short_slice(s) ==
    IF Len(s) = 0 THEN Zeros12
    ELSE SubSeq(HexEncode(Sha256Digest(s)), 1, 11)

\* hash12: 12 zeros for the empty string, else the first 12 hex characters.
hash12(s) ==
    IF Len(s) = 0 THEN Zeros12
    ELSE LET sha256 == HexEncode(Sha256Digest(s))
         IN  SubSeq(sha256, 1, 12)

(***************************************************************************)
(* Option<T>.                                                              *)
(***************************************************************************)
None == [some |-> FALSE]

Some(v) == [some |-> TRUE, val |-> v]

(***************************************************************************)
(* parse_tshark_version and the std::str helpers it uses.  Indices are     *)
(* 0-based byte offsets, as in Rust; the inputs are ASCII.                 *)
(***************************************************************************)
\* char::is_whitespace on the ASCII range: TAB, LF, VT, FF, CR, SPACE.
IsWhitespace(c) == c \in {9, 10, 11, 12, 13, 32}

\* str::find(pat): the offset of the first occurrence of pat.
RECURSIVE FindFrom(_, _, _)
FindFrom(s, pat, i) ==
    IF i + Len(pat) > Len(s) THEN None
    ELSE IF SubSeq(s, i + 1, i + Len(pat)) = pat THEN Some(i)
    ELSE FindFrom(s, pat, i + 1)

Find(s, pat) == FindFrom(s, pat, 0)

\* str::find(char::is_whitespace): the offset of the first whitespace.
RECURSIVE FindWhitespaceFrom(_, _)
FindWhitespaceFrom(s, i) ==
    IF i >= Len(s) THEN None
    ELSE IF IsWhitespace(s[i + 1]) THEN Some(i)
    ELSE FindWhitespaceFrom(s, i + 1)

FindWhitespace(s) == FindWhitespaceFrom(s, 0)

\* str::strip_suffix(c).unwrap_or(s): s without one trailing c.
StripSuffixOr(s, c) ==
    IF Len(s) > 0 /\ s[Len(s)] = c THEN SubSeq(s, 1, Len(s) - 1) ELSE s

\* str::trim_end_matches(c): s without any of its trailing c.
RECURSIVE TrimEndMatches(_, _)
TrimEndMatches(s, c) ==
    IF Len(s) > 0 /\ s[Len(s)] = c
    THEN TrimEndMatches(SubSeq(s, 1, Len(s) - 1), c)
    ELSE s

\* parse_tshark_version removing every trailing '.' instead of one.
parse_tshark_version_trim_all(tshark_version_output) ==
    LET found == Find(tshark_version_output, <<41, 32>>)
    IN  IF ~found.some THEN None
        ELSE LET version_start ==
                     SubSeq(tshark_version_output, found.val + 3,
                            Len(tshark_version_output))
                 end == FindWhitespace(version_start)
             IN  IF ~end.some THEN None
                 ELSE Some(TrimEndMatches(SubSeq(version_start, 1, end.val), 46))

parse_tshark_version(tshark_version_output) ==
    LET found == Find(tshark_version_output, <<41, 32>>)
    IN  IF ~found.some THEN None
        ELSE LET start == found.val + 2
                 version_start ==
                     SubSeq(tshark_version_output, start + 1,
                            Len(tshark_version_output))
                 end == FindWhitespace(version_start)
             IN  IF ~end.some THEN None
                 ELSE LET ver == SubSeq(version_start, 1, end.val)
                      IN  Some(StripSuffixOr(ver, 46))

(***************************************************************************)
(* Result<(), Error>.                                                      *)
(***************************************************************************)
Ok == [ok |-> TRUE]

Err(e) == [ok |-> FALSE, err |-> e]

(***************************************************************************)
(* check_tshark_version.  semver::Version::parse is modelled on versions   *)
(* without pre-release or build metadata: three dot-separated decimal      *)
(* numbers without leading zeros.                                          *)
(***************************************************************************)
RECURSIVE SplitOn(_, _)
SplitOn(s, c) ==
    LET at == FindFrom(s, <<c>>, 0)
    IN  IF ~at.some THEN <<s>>
        ELSE <<SubSeq(s, 1, at.val)>> \o SplitOn(SubSeq(s, at.val + 2, Len(s)), c)

IsNumericIdent(p) ==
    /\ Len(p) > 0
    /\ \A i \in 1..Len(p) : p[i] \in 48..57
    /\ Len(p) > 1 => p[1] # 48

RECURSIVE NatOf(_)
NatOf(p) ==
    IF Len(p) = 0 THEN 0
    ELSE 10 * NatOf(SubSeq(p, 1, Len(p) - 1)) + (p[Len(p)] - 48)

SemverParse(ver) ==
    LET parts == SplitOn(ver, 46)
    IN  IF Len(parts) = 3 /\ \A i \in 1..3 : IsNumericIdent(parts[i])
        THEN Some(<<NatOf(parts[1]), NatOf(parts[2]), NatOf(parts[3])>>)
        ELSE None

\* VersionReq::parse(">=4.0.6").matches(available)
RequiredMatches(available) ==
    \/ available[1] > 4
    \/ available[1] = 4 /\ available[2] > 0
    \/ available[1] = 4 /\ available[2] = 0 /\ available[3] >= 6

\* cmd: Some(output) of `tshark --version`, or None when the command fails.
\* Returns the result and whether the outdated-version warning was printed.
check_tshark_version(cmd) ==
    IF ~cmd.some THEN [res |-> Err("TsharkNotFound"), warned |-> FALSE]
    ELSE LET ver == parse_tshark_version(cmd.val)
         IN  IF ~ver.some
             THEN [res |-> Err("ParseTsharkVersion"), warned |-> FALSE]
             ELSE LET available == SemverParse(ver.val)
                  IN  IF ~available.some
                      THEN [res |-> Err("Semver"), warned |-> FALSE]
                      ELSE [res |-> Ok,
                            warned |-> ~RequiredMatches(available.val)]

(***************************************************************************)
(* The strings of the crate's unit tests.                                  *)
(***************************************************************************)
\* "551d0f,551d25,551d11"
TestVector ==
    <<53, 53, 49, 100, 48, 102, 44, 53, 53, 49, 100, 50, 53, 44, 53, 53, 49,
      100, 49, 49>>

\* "aae71e8db6d7"
TestDigest == <<97, 97, 101, 55, 49, 101, 56, 100, 98, 54, 100, 55>>

\* "TShark (Wireshark) 4.0.8 (v4.0.8-0-g81696bb74857)."
VersionOut408 ==
    <<84, 83, 104, 97, 114, 107, 32, 40, 87, 105, 114, 101, 115, 104, 97,
      114, 107, 41, 32, 52, 46, 48, 46, 56, 32, 40, 118, 52, 46, 48, 46, 56,
      45, 48, 45, 103, 56, 49, 54, 57, 54, 98, 98, 55, 52, 56, 53, 55, 41,
      46>>

\* "TShark (Wireshark) 3.6.2 (Git v3.6.2 packaged as 3.6.2-2)"
VersionOut362 ==
    <<84, 83, 104, 97, 114, 107, 32, 40, 87, 105, 114, 101, 115, 104, 97,
      114, 107, 41, 32, 51, 46, 54, 46, 50, 32, 40, 71, 105, 116, 32, 118,
      51, 46, 54, 46, 50, 32, 112, 97, 99, 107, 97, 103, 101, 100, 32, 97,
      115, 32, 51, 46, 54, 46, 50, 45, 50, 41>>

\* "TShark (Wireshark) 4.4.0.\n\nCopyright 1998-2024"
VersionOut440 ==
    <<84, 83, 104, 97, 114, 107, 32, 40, 87, 105, 114, 101, 115, 104, 97,
      114, 107, 41, 32, 52, 46, 52, 46, 48, 46, 10, 10, 67, 111, 112, 121,
      114, 105, 103, 104, 116, 32, 49, 57, 57, 56, 45, 50, 48, 50, 52>>

\* "TShark (Wireshark) 4.4.0." (abrupt end of the string)
VersionOutAbrupt ==
    <<84, 83, 104, 97, 114, 107, 32, 40, 87, 105, 114, 101, 115, 104, 97,
      114, 107, 41, 32, 52, 46, 52, 46, 48, 46>>

\* "What the TShark?!"
VersionOutJunk ==
    <<87, 104, 97, 116, 32, 116, 104, 101, 32, 84, 83, 104, 97, 114, 107,
      63, 33>>

\* "TShark (Wireshark) unknown (v0)": a version token that is no semver.
VersionOutNoSemver ==
    <<84, 83, 104, 97, 114, 107, 32, 40, 87, 105, 114, 101, 115, 104, 97,
      114, 107, 41, 32, 117, 110, 107, 110, 111, 119, 110, 32, 40, 118, 48,
      41>>

TestVersionOutputs ==
    {VersionOut408, VersionOut362, VersionOut440, VersionOutAbrupt,
     VersionOutJunk, VersionOutNoSemver}

(***************************************************************************)
(* Bounds of the model and the inputs drawn within them.                   *)
(***************************************************************************)
\* Longest enumerated input of hash12.
MaxHashLen == 3

\* Longest enumerated input of parse_tshark_version.
MaxVerLen == 5

\* Most packets the dissector delivers in one run.
MaxPackets == 3

\* Most records Streams::into_out yields in one run.
MaxRecords == 2

\* ',', '1', 'd', 'f'
HashAlphabet == {44, 49, 100, 102}

\* LF, SPACE, ')', '.', '4'
VerAlphabet == {10, 32, 41, 46, 52}

RECURSIVE StringsUpTo(_, _)
StringsUpTo(A, n) ==
    IF n = 0 THEN {<<>>}
    ELSE LET shorter == StringsUpTo(A, n - 1)
         IN  shorter \cup {Append(s, c) : s \in shorter, c \in A}

HashInputs == StringsUpTo(HashAlphabet, MaxHashLen) \cup {TestVector}

VerInputs == StringsUpTo(VerAlphabet, MaxVerLen) \cup TestVersionOutputs

\* What a dissected packet carries, as far as this file looks at it.
Payloads == {"syn", "hello"}

\* The outcomes of running `tshark --version`.
TsharkCmds == {None} \cup {Some(o) : o \in TestVersionOutputs}

(***************************************************************************)
(* State.                                                                  *)
(*   hIn, hCalled, hOut   hash12: argument, called yet, returned string    *)
(*   vIn, vCalled, vOut   parse_tshark_version: likewise                   *)
(*   cli                  the fields of Cli                                *)
(*   pc                   the position of Cli::run                         *)
(*   packet               the packet bound by `while let Some(packet)`     *)
(*   packet_num           the local of that name                           *)
(*   reads                calls of tshark.read() so far                    *)
(*   delivered            the packets tshark.read() has returned, in order *)
(*   updates              the calls of Streams::update, in order: the      *)
(*                        state of `streams`                               *)
(*   finalized            the calls of Streams::into_out, in order         *)
(*   out                  the records into_out has yet to yield            *)
(*   log                  the tracing events and the stderr warning        *)
(*   writer               what has been written to the writer              *)
(*   failed               the steps that have failed so far                *)
(*   result               None while running, then Some(return value)      *)
(***************************************************************************)
VARIABLES hIn, hCalled, hOut, vIn, vCalled, vOut, cli, pc, packet,
          packet_num, reads, delivered, updates, finalized, out, log, writer,
          failed, result

hashVars == <<hIn, hCalled, hOut>>

verVars == <<vIn, vCalled, vOut>>

runVars ==
    <<cli, pc, packet, packet_num, reads, delivered, updates, finalized, out,
      log, writer, failed, result>>

vars == <<hashVars, verVars, runVars>>

Clis ==
    [json : BOOLEAN, with_raw : BOOLEAN, original_order : BOOLEAN,
     keylog_file : {"none", "utf8", "nonutf8"},
     with_packet_numbers : BOOLEAN, pcap : {"utf8", "nonutf8"}]

InitHashAt(inputs) ==
    /\ hIn \in inputs
    /\ hCalled = FALSE
    /\ hOut = <<>>

InitVerAt(inputs) ==
    /\ vIn \in inputs
    /\ vCalled = FALSE
    /\ vOut = None

InitRunAt(clis) ==
    /\ cli \in clis
    /\ pc = "load_conf"
    /\ packet = None
    /\ packet_num = 0
    /\ reads = 0
    /\ delivered = <<>>
    /\ updates = <<>>
    /\ finalized = <<>>
    /\ out = <<>>
    /\ log = <<>>
    /\ writer = <<>>
    /\ failed = {}
    /\ result = None

(***************************************************************************)
(* The two pure functions, applied to the drawn input.                     *)
(***************************************************************************)
Hash12Call ==
    /\ ~hCalled
    /\ hCalled' = TRUE
    /\ hOut' = hash12(hIn)
    /\ UNCHANGED <<hIn, verVars, runVars>>

ParseVersionCall ==
    /\ ~vCalled
    /\ vCalled' = TRUE
    /\ vOut' = parse_tshark_version(vIn)
    /\ UNCHANGED <<vIn, hashVars, runVars>>

(***************************************************************************)
(* Cli::run, one action per step that can fail or that touches the         *)
(* dissector, the flow table or the writer.                                *)
(***************************************************************************)
\* `return r`, after the step named `what` failed (or "" when none did).
Return(r, what) ==
    /\ pc' = "done"
    /\ result' = Some(r)
    /\ failed' = IF what = "" THEN failed ELSE failed \cup {what}

\* let conf = Conf::load()?;
LoadConf ==
    /\ pc = "load_conf"
    /\ \/ /\ pc' = "pcap_path"
          /\ UNCHANGED <<result, failed>>
       \/ Return(Err("Conf"), "conf")
    /\ UNCHANGED <<cli, packet, packet_num, reads, delivered, updates,
                   finalized, out, log, writer, hashVars, verVars>>

\* let Some(pcap_path) = pcap.to_str() else { return Err(NonUtf8Path) };
PcapPath ==
    /\ pc = "pcap_path"
    /\ IF cli.pcap = "nonutf8"
       THEN Return(Err("NonUtf8Path"), "pcap_path")
       ELSE pc' = "check_version" /\ UNCHANGED <<result, failed>>
    /\ UNCHANGED <<cli, packet, packet_num, reads, delivered, updates,
                   finalized, out, log, writer, hashVars, verVars>>

\* check_tshark_version()?;
CheckVersion ==
    /\ pc = "check_version"
    /\ \E cmd \in TsharkCmds :
          LET r == check_tshark_version(cmd)
          IN  /\ log' = IF r.warned
                        THEN Append(log, [level |-> "warn",
                                          what |-> "tshark version is outdated"])
                        ELSE log
              /\ IF r.res.ok
                 THEN pc' = "keylog" /\ UNCHANGED <<result, failed>>
                 ELSE Return(r.res, "tshark_version")
    /\ UNCHANGED <<cli, packet, packet_num, reads, delivered, updates,
                   finalized, out, writer, hashVars, verVars>>

\* if let Some(keylog) = &keylog_file { ... keylog.to_str() ... }
Keylog ==
    /\ pc = "keylog"
    /\ IF cli.keylog_file = "nonutf8"
       THEN Return(Err("NonUtf8Path"), "keylog_path")
       ELSE pc' = "spawn" /\ UNCHANGED <<result, failed>>
    /\ UNCHANGED <<cli, packet, packet_num, reads, delivered, updates,
                   finalized, out, log, writer, hashVars, verVars>>

\* let mut tshark = builder.spawn()?; streams = default; packet_num = 0;
Spawn ==
    /\ pc = "spawn"
    /\ \/ /\ pc' = "read"
          /\ UNCHANGED <<result, failed>>
       \/ Return(Err("Spawn"), "spawn")
    /\ packet_num' = 0
    /\ updates' = <<>>
    /\ UNCHANGED <<cli, packet, reads, delivered, finalized, out, log,
                   writer, hashVars, verVars>>

\* ReadPacket with `tshark.read()?`: a read error is returned.
ReadPacket_propagate ==
    /\ pc = "read"
    /\ reads' = reads + 1
    /\ \/ \E p \in Payloads :
             /\ Len(delivered) < MaxPackets
             /\ packet' = Some(p)
             /\ delivered' = Append(delivered, p)
             /\ pc' = "handle"
             /\ UNCHANGED <<log, failed, result>>
       \/ /\ packet' = None
          /\ pc' = "finalize"
          /\ UNCHANGED <<delivered, log, failed, result>>
       \/ /\ packet' = None
          /\ Return(Err("Read"), "read")
          /\ UNCHANGED <<delivered, log>>
    /\ UNCHANGED <<cli, packet_num, updates, finalized, out, writer,
                   hashVars, verVars>>

\* while let Some(packet) = tshark.read().unwrap_or_else(|err| { error!; None })
ReadPacket ==
    /\ pc = "read"
    /\ reads' = reads + 1
    /\ \/ \E p \in Payloads :                       \* Ok(Some(packet))
             /\ Len(delivered) < MaxPackets
             /\ packet' = Some(p)
             /\ delivered' = Append(delivered, p)
             /\ pc' = "handle"
             /\ UNCHANGED <<log, failed>>
       \/ /\ packet' = None                         \* Ok(None): end of input
          /\ pc' = "finalize"
          /\ UNCHANGED <<delivered, log, failed>>
       \/ /\ packet' = None                         \* Err(err): logged, None
          /\ log' = Append(log, [level |-> "error",
                                 what |-> "failed to parse tshark output"])
          /\ failed' = failed \cup {"read"}
          /\ pc' = "finalize"
          /\ UNCHANGED delivered
    /\ UNCHANGED <<cli, packet_num, updates, finalized, out, writer, result,
                   hashVars, verVars>>

\* HandlePacket with `streams.update(..)?`: an update error is returned.
HandlePacket_propagate ==
    /\ pc = "handle"
    /\ packet_num' = packet_num + 1
    /\ \E ok \in BOOLEAN :
          /\ updates' = Append(updates, [packet |-> packet.val,
                                         packet_num |-> packet_num',
                                         with_packet_numbers |->
                                             cli.with_packet_numbers,
                                         ok |-> ok])
          /\ IF ok
             THEN pc' = "read" /\ UNCHANGED <<failed, result>>
             ELSE Return(Err("Update"), "update")
    /\ UNCHANGED <<cli, packet, reads, delivered, finalized, out, log, writer,
                   hashVars, verVars>>

\* HandlePacket leaving the loop (`break`) after logging an update error.
HandlePacket_break ==
    /\ pc = "handle"
    /\ packet_num' = packet_num + 1
    /\ \E ok \in BOOLEAN :
          /\ updates' = Append(updates, [packet |-> packet.val,
                                         packet_num |-> packet_num',
                                         with_packet_numbers |->
                                             cli.with_packet_numbers,
                                         ok |-> ok])
          /\ log' = IF ok THEN log
                    ELSE Append(log, [level |-> "debug",
                                      what |-> "failed to handle packet",
                                      packet_num |-> packet_num'])
          /\ failed' = IF ok THEN failed ELSE failed \cup {"update"}
          /\ pc' = IF ok THEN "read" ELSE "finalize"
    /\ UNCHANGED <<cli, packet, reads, delivered, finalized, out, writer,
                   result, hashVars, verVars>>

\* HandlePacket counting only the packets whose update succeeded.
HandlePacket_count_handled ==
    /\ pc = "handle"
    /\ \E ok \in BOOLEAN :
          /\ packet_num' = IF ok THEN packet_num + 1 ELSE packet_num
          /\ updates' = Append(updates, [packet |-> packet.val,
                                         packet_num |-> packet_num + 1,
                                         with_packet_numbers |->
                                             cli.with_packet_numbers,
                                         ok |-> ok])
          /\ log' = IF ok THEN log
                    ELSE Append(log, [level |-> "debug",
                                      what |-> "failed to handle packet",
                                      packet_num |-> packet_num + 1])
          /\ failed' = IF ok THEN failed ELSE failed \cup {"update"}
    /\ pc' = "read"
    /\ UNCHANGED <<cli, packet, reads, delivered, finalized, out, writer,
                   result, hashVars, verVars>>

\* HandlePacket writing a line to the writer as soon as a packet is handled.
HandlePacket_flush ==
    /\ pc = "handle"
    /\ packet_num' = packet_num + 1
    /\ \E ok \in BOOLEAN :
          /\ updates' = Append(updates, [packet |-> packet.val,
                                         packet_num |-> packet_num',
                                         with_packet_numbers |->
                                             cli.with_packet_numbers,
                                         ok |-> ok])
          /\ log' = IF ok THEN log
                    ELSE Append(log, [level |-> "debug",
                                      what |-> "failed to handle packet",
                                      packet_num |-> packet_num'])
          /\ failed' = IF ok THEN failed ELSE failed \cup {"update"}
          /\ writer' = IF ok THEN Append(writer, <<"json", packet_num'>>)
                       ELSE writer
    /\ pc' = "read"
    /\ UNCHANGED <<cli, packet, reads, delivered, finalized, out, result,
                   hashVars, verVars>>

\* The loop body: packet_num += 1; Packet::new; streams.update; debug! on Err.
HandlePacket ==
    /\ pc = "handle"
    /\ packet_num' = packet_num + 1
    /\ \E ok \in BOOLEAN :
          /\ updates' = Append(updates, [packet |-> packet.val,
                                         packet_num |-> packet_num',
                                         with_packet_numbers |->
                                             cli.with_packet_numbers,
                                         ok |-> ok])
          /\ log' = IF ok THEN log
                    ELSE Append(log, [level |-> "debug",
                                      what |-> "failed to handle packet",
                                      packet_num |-> packet_num'])
          /\ failed' = IF ok THEN failed ELSE failed \cup {"update"}
    /\ pc' = "read"
    /\ UNCHANGED <<cli, packet, reads, delivered, finalized, out, writer,
                   result, hashVars, verVars>>

\* Finalize returning early, without into_out, when no packet was handled.
Finalize_skip_empty ==
    /\ pc = "finalize"
    /\ IF updates = <<>>
       THEN Return(Ok, "") /\ UNCHANGED <<finalized, out>>
       ELSE /\ finalized' =
                   Append(finalized,
                          [streams |-> updates,
                           flags |-> [with_raw |-> cli.with_raw,
                                      original_order |-> cli.original_order]])
            /\ \E n \in 0..MaxRecords : out' = [i \in 1..n |-> i]
            /\ pc' = IF cli.json THEN "json_record" ELSE "yaml_string"
            /\ UNCHANGED <<failed, result>>
    /\ UNCHANGED <<cli, packet, packet_num, reads, delivered, updates, log,
                   writer, hashVars, verVars>>

\* streams.into_out(flags): consumes the flow table and yields its records,
\* here numbered 1..n (how many there are is decided in Streams).
Finalize ==
    /\ pc = "finalize"
    /\ finalized' = Append(finalized,
                           [streams |-> updates,
                            flags |-> [with_raw |-> cli.with_raw,
                                       original_order |-> cli.original_order]])
    /\ \E n \in 0..MaxRecords : out' = [i \in 1..n |-> i]
    /\ pc' = IF cli.json THEN "json_record" ELSE "yaml_string"
    /\ UNCHANGED <<cli, packet, packet_num, reads, delivered, updates, log,
                   writer, failed, result, hashVars, verVars>>

\* for rec in ... { serde_json::to_writer(&mut *writer, &rec)?;
JsonRecord ==
    /\ pc = "json_record"
    /\ IF out = <<>>
       THEN Return(Ok, "") /\ UNCHANGED writer
       ELSE \/ /\ writer' = Append(writer, <<"json", Head(out)>>)
               /\ pc' = "json_newline"
               /\ UNCHANGED <<result, failed>>
            \/ /\ Return(Err("Json"), "serialize")
               /\ UNCHANGED writer
            \/ /\ Return(Err("Json"), "write")
               /\ writer' \in {writer, Append(writer, <<"partial">>)}
    /\ UNCHANGED <<cli, packet, packet_num, reads, delivered, updates,
                   finalized, out, log, hashVars, verVars>>

\* writeln!(writer)?; }
JsonNewline ==
    /\ pc = "json_newline"
    /\ \/ /\ writer' = Append(writer, <<"newline">>)
          /\ out' = Tail(out)
          /\ pc' = "json_record"
          /\ UNCHANGED <<result, failed>>
       \/ /\ Return(Err("Io"), "write")
          /\ UNCHANGED <<writer, out>>
    /\ UNCHANGED <<cli, packet, packet_num, reads, delivered, updates,
                   finalized, log, hashVars, verVars>>

\* let s = serde_yaml::to_string(&....collect::<Vec<_>>())?;
YamlString ==
    /\ pc = "yaml_string"
    /\ \/ /\ pc' = "yaml_write"
          /\ UNCHANGED <<result, failed>>
       \/ Return(Err("Yaml"), "serialize")
    /\ UNCHANGED <<cli, packet, packet_num, reads, delivered, updates,
                   finalized, out, log, writer, hashVars, verVars>>

\* writer.write_all(s.as_bytes())?; Ok(())
YamlWrite ==
    /\ pc = "yaml_write"
    /\ \/ /\ writer' = Append(writer, <<"yaml", out>>)
          /\ Return(Ok, "")
       \/ /\ Return(Err("Io"), "write")
          /\ writer' \in {writer, Append(writer, <<"partial">>)}
    /\ UNCHANGED <<cli, packet, packet_num, reads, delivered, updates,
                   finalized, out, log, hashVars, verVars>>

(***************************************************************************)
(* Specifications.                                                         *)
(***************************************************************************)
NoCli ==
    [json |-> FALSE, with_raw |-> FALSE, original_order |-> FALSE,
     keylog_file |-> "none", with_packet_numbers |-> FALSE, pcap |-> "utf8"]

Init ==
    /\ InitHashAt({<<>>})
    /\ InitVerAt({<<>>})
    /\ InitRunAt(Clis)

Next ==
    \/ LoadConf
    \/ PcapPath
    \/ CheckVersion
    \/ Keylog
    \/ Spawn
    \/ ReadPacket
    \/ HandlePacket
    \/ Finalize
    \/ JsonRecord
    \/ JsonNewline
    \/ YamlString
    \/ YamlWrite

\* Cli::run over every Cli and every behaviour of its collaborators.
Spec == Init /\ [][Next]_vars

InitHash ==
    /\ InitHashAt(HashInputs)
    /\ InitVerAt({<<>>})
    /\ InitRunAt({NoCli})

\* hash12 over the drawn inputs.
SpecHash == InitHash /\ [][Hash12Call]_vars

InitVer ==
    /\ InitHashAt({<<>>})
    /\ InitVerAt(VerInputs)
    /\ InitRunAt({NoCli})

\* parse_tshark_version over the drawn inputs.
SpecVer == InitVer /\ [][ParseVersionCall]_vars

(***************************************************************************)
(* Properties.                                                             *)
(***************************************************************************)
\* A read has returned None or Err: the packet loop has ended.
LoopEnded == reads > Len(delivered)

\* The positions of Cli::run up to and including the end of the packet loop.
BeforeOutput ==
    {"load_conf", "pcap_path", "check_version", "keylog", "spawn", "read",
     "handle", "finalize"}

\* The value of a lowercase hexadecimal digit, 16 for any other character.
LowerHexValue(c) ==
    IF c \in 48..57 THEN c - 48 ELSE IF c \in 97..102 THEN c - 87 ELSE 16

\* C1: hash12 of the empty string is exactly the 12 characters
\* "000000000000", which is not the hex prefix of the SHA-256 of the empty
\* message (e3b0c44298fc): the digest is not what is returned.
C1_EmptyHashesToZeros ==
    (hCalled /\ hIn = <<>>) =>
        /\ Len(hOut) = 12
        /\ \A i \in 1..12 : hOut[i] = 48
        /\ hOut # SubSeq(HexEncode(Sha256Digest(<<>>)), 1, 12)

C1_Witness == hCalled /\ hIn = <<>> /\ Len(hOut) = 12

\* C2: for a non-empty string, hash12 is 12 characters long, every one a
\* lowercase hexadecimal digit, and read back as bytes they are the first six
\* bytes of the SHA-256 digest of the string; hash12("551d0f,551d25,551d11")
\* is "aae71e8db6d7".
C2_NonEmptyHashIsDigestPrefix ==
    (hCalled /\ hIn # <<>>) =>
        LET digest == SubSeq(Sha256Digest(hIn), 1, 6)
        IN  /\ Len(hOut) = 12
            /\ \A i \in 1..12 : LowerHexValue(hOut[i]) < 16
            /\ \A i \in 1..6 :
                  16 * LowerHexValue(hOut[2 * i - 1])
                      + LowerHexValue(hOut[2 * i]) = digest[i]
            /\ hIn = TestVector => hOut = TestDigest

C2_Witness == hCalled /\ hIn = TestVector /\ hOut = TestDigest

\* What C9 describes: the text between the first ") " and the next
\* whitespace, without one trailing '.'; None without ") " or whitespace.
C9_Described(s) ==
    LET parens == {i \in 1..(Len(s) - 1) : s[i] = 41 /\ s[i + 1] = 32}
    IN  IF parens = {} THEN None
        ELSE LET first == CHOOSE i \in parens : \A j \in parens : i <= j
                 spaces == {j \in (first + 2)..Len(s) :
                                s[j] \in {9, 10, 11, 12, 13, 32}}
             IN  IF spaces = {} THEN None
                 ELSE LET next == CHOOSE j \in spaces : \A k \in spaces : j <= k
                          token == SubSeq(s, first + 2, next - 1)
                      IN  IF token # <<>> /\ token[Len(token)] = 46
                          THEN Some(SubSeq(token, 1, Len(token) - 1))
                          ELSE Some(token)

\* C9: parse_tshark_version returns the text between the first ") " and the
\* next whitespace character, without one trailing '.', and None when there
\* is no ") " or no whitespace after the version.
C9_ParseVersion == vCalled => vOut = C9_Described(vIn)

C9_Witness ==
    /\ vCalled
    /\ vIn = VersionOut440
    /\ vOut = Some(<<52, 46, 52, 46, 48>>)

\* C3: when Streams::update fails for packet k, the failure is logged with
\* the packet number k, the loop goes on to the next read (run does not
\* return or leave the loop there), and every packet delivered after k is
\* passed to Streams::update too.
C3_UpdateErrorIsLogged ==
    \A k \in 1..Len(updates) :
        ~updates[k].ok =>
            /\ \E i \in 1..Len(log) :
                  log[i] = [level |-> "debug",
                            what |-> "failed to handle packet",
                            packet_num |-> k]
            /\ \/ pc = "read" /\ Len(updates) = k
               \/ reads > k
            /\ \A j \in (k + 1)..Len(delivered) :
                  \/ j <= Len(updates) /\ updates[j].packet = delivered[j]
                  \/ j = Len(delivered) /\ pc = "handle"
            /\ pc = "done" => Len(finalized) = 1

C3_Witness ==
    /\ pc = "done"
    /\ result = Some(Ok)
    /\ Len(updates) = 2
    /\ ~updates[1].ok
    /\ updates[2].ok

\* The steps whose failure makes Cli::run return an error.
FatalSteps ==
    {"conf", "pcap_path", "tshark_version", "keylog_path", "spawn",
     "serialize", "write"}

\* C4, as claimed: run returns an error only when loading the configuration
\* or serializing or writing the output has failed.
C4_OnlyConfAndOutputErrors ==
    (pc = "done" /\ ~result.val.ok) =>
        failed \cap {"conf", "serialize", "write"} # {}

\* C4, amended: run returns an error exactly when loading the configuration,
\* the UTF-8 check of the capture or key-log path, the tshark version check,
\* the spawn of the dissector, or serializing or writing the output has
\* failed; a failed packet read or per-packet update never makes it return
\* an error.
C4_ErrorsThatPropagate ==
    pc = "done" =>
        /\ result.some
        /\ ~result.val.ok <=> failed \cap FatalSteps # {}
        /\ ~result.val.ok =>
              result.val.err \in {"Conf", "NonUtf8Path", "TsharkNotFound",
                                  "ParseTsharkVersion", "Semver", "Spawn",
                                  "Json", "Yaml", "Io"}

C4_Witness ==
    /\ pc = "done"
    /\ result = Some(Ok)
    /\ failed = {"read", "update"}

\* C5: the flow table is finalized (into_out) at most once, never before
\* the packet loop has ended, exactly once in a run that has got past the
\* end of input, in the JSON and in the YAML mode alike, and on the flow
\* table as the last update left it: no update follows the finalization.
C5_FinalizedOnce ==
    /\ Len(finalized) <= 1
    /\ pc \in BeforeOutput => finalized = <<>>
    /\ (LoopEnded /\ pc # "finalize") => Len(finalized) = 1
    /\ Len(finalized) = 1 =>
          /\ LoopEnded
          /\ finalized[1].streams = updates
          /\ finalized[1].flags = [with_raw |-> cli.with_raw,
                                   original_order |-> cli.original_order]

C5_Witness ==
    /\ pc = "done"
    /\ ~cli.json
    /\ Len(finalized) = 1
    /\ Len(finalized[1].streams) = 2

\* C6: nothing is written while packets are being consumed: the writer is
\* empty at every position up to the end of the packet loop, and stays empty
\* in a run that returns before the loop has ended.
C6_NoPartialFlush ==
    /\ pc \in BeforeOutput => writer = <<>>
    /\ ~LoopEnded => writer = <<>>
    /\ writer # <<>> => Len(finalized) = 1

C6_Witness ==
    /\ pc = "read"
    /\ Len(updates) = 2
    /\ writer = <<>>

\* C7: the k-th packet read is the k-th passed to Streams::update, with
\* packet number k (from 1, no gap, no reuse, whatever the earlier updates
\* returned), and it is passed before the next packet is read.
C7_PacketNumbering ==
    /\ \A k \in 1..Len(updates) :
          /\ updates[k].packet_num = k
          /\ updates[k].packet = delivered[k]
    /\ packet_num = Len(updates)
    /\ Len(delivered) = IF pc = "handle" THEN Len(updates) + 1
                        ELSE Len(updates)
    /\ pc = "handle" => packet = Some(delivered[Len(delivered)])
    /\ reads \in {Len(delivered), Len(delivered) + 1}

C7_Witness ==
    /\ pc = "read"
    /\ Len(updates) = 3
    /\ ~updates[1].ok
    /\ updates[2].packet # updates[3].packet
    /\ updates[3].packet_num = 3

\* What a run that returned Ok has written: a line per record, or one
\* YAML document.
C10_Written ==
    IF cli.json
    THEN /\ out = <<>>
         /\ Len(writer) % 2 = 0
         /\ \A i \in 1..(Len(writer) \div 2) :
               /\ writer[2 * i - 1] = <<"json", i>>
               /\ writer[2 * i] = <<"newline">>
    ELSE writer = << <<"yaml", out>> >>

\* C10: after a failed read the packet loop is over: no further read, no
\* further update, every packet delivered before has been handled, the flow
\* table is finalized as it stands and written, and run returns Ok unless
\* serializing or writing fails.
C10_ReadFailureEndsInput ==
    "read" \in failed =>
        /\ pc \notin (BeforeOutput \ {"finalize"})
        /\ reads = Len(delivered) + 1
        /\ Len(updates) = Len(delivered)
        /\ pc # "finalize" =>
              Len(finalized) = 1 /\ finalized[1].streams = updates
        /\ pc = "done" =>
              /\ result.val.ok <=> failed \cap {"serialize", "write"} = {}
              /\ result.val.ok => C10_Written

C10_Witness ==
    /\ "read" \in failed
    /\ pc = "done"
    /\ result = Some(Ok)
    /\ Len(updates) = 2
    /\ Len(writer) = 4

====
